---- MODULE Spec2Model ----
(***************************************************************************)
(* SPECtate: the run orchestrator (src/src/benchmark_run.py) and the       *)
(* configuration validator (src/src/validate.py).                          *)
(*                                                                         *)
(* Python values are tagged records: k names the Python type.  A dict is   *)
(* a function from its keys to values, so a missing key is a key outside   *)
(* its DOMAIN.                                                             *)
(***************************************************************************)
EXTENDS Integers, Sequences, FiniteSets, TLC

VARIABLES
    entry,      \* the entry point this behaviour exercises
    args,       \* the arguments the caller passes to it
    pc,         \* where the caller's thread is
    exc,        \* the exception that ended the call, "none" while there is none
    self,       \* the constructed object's fields (its __dict__)
    nextId,     \* uuid4(): the next identifier it hands out
    propsFile,  \* the properties file on disk
    ctrl,       \* the controller's TaskRunner: its argv and its process
    tasks,      \* run()'s list of generated TaskRunners
    pool,       \* the worker pool: "none", or its number of processes
    tstate,     \* per task: what the pool has done with it
    attempts,   \* per task: how many times do(task) was entered
    doc,        \* validate(): the document passed in
    result      \* validate(): what the call produced

vars == <<entry, args, pc, exc, self, nextId, propsFile, ctrl, tasks, pool,
          tstate, attempts, doc, result>>

valVars == <<doc, result>>

----------------------------------------------------------------------------
(* Python values *)

NoneV == [k |-> "none"]

PyStr(s) == [k |-> "str", s |-> s]

PyInt(n) == [k |-> "int", n |-> n]

PyList(l) == [k |-> "list", l |-> l]

PyDict(d) == [k |-> "dict", d |-> d]

EmptyDict == [z \in {} |-> z]

\* dict.get(key, default)
Get(d, key, default) == IF key \in DOMAIN d THEN d[key] ELSE default

\* uuid4(): identifiers are 122 random bits; a fresh one is taken to differ
\* from every identifier handed out before.
Uuid(n) == [k |-> "uuid", n |-> n]

\* '-G={}'.format(id), '-J={}'.format(id)
Format(flag, id) == [k |-> "str", s |-> flag, id |-> id]

\* str.upper() on the type strings of the model
UpperOf(s) ==
    CASE s = "backend" -> "BACKEND"
      [] s = "txinjector" -> "TXINJECTOR"
      [] s = "composite" -> "COMPOSITE"
      [] s = "multi" -> "MULTI"
      [] s = "Multi" -> "MULTI"
      [] s = "distributed" -> "DISTRIBUTED"
      [] OTHER -> s

Ok(v) == [exc |-> "none", val |-> v]

Raise(e) == [exc |-> e, val |-> NoneV]

----------------------------------------------------------------------------
(* JvmRunOptions.__init__ *)

JvmRunOptions(val) ==
    CASE val.k = "str" -> Ok([path |-> val, options |-> PyList(<<>>)])
      [] val.k = "list" ->
            IF Len(val.l) = 0 THEN Raise("IndexError")
            ELSE Ok([path |-> Head(val.l), options |-> PyList(Tail(val.l))])
      [] val.k = "dict" ->
            IF "path" \notin DOMAIN val.d THEN Raise("Exception")
            ELSE IF val.d["path"].k # "str" THEN Raise("Exception")
            ELSE IF "options" \notin DOMAIN val.d
                 THEN Ok([key \in DOMAIN val.d \cup {"options"} |->
                            IF key = "options" THEN PyList(<<>>) ELSE val.d[key]])
            ELSE IF val.d["options"].k # "list" THEN Raise("Exception")
            ELSE Ok(val.d)
      [] val.k = "none" -> Ok([path |-> PyStr("java"), options |-> PyList(<<>>)])
      [] OTHER -> Raise("Exception")

----------------------------------------------------------------------------
(* SpecJBBComponentOptions.__init__ *)

SpecJBBComponentTypes == {"backend", "txinjector", "composite", "multi", "distributed"}

ComponentDefaults(count) ==
    [count |-> PyInt(count), options |-> PyList(<<>>), jvm_opts |-> PyList(<<>>)]

SpecJBBComponentOptions(init, count) ==
    IF init.k = "str" /\ init.s \notin SpecJBBComponentTypes THEN Raise("Exception")
    ELSE IF init.k \notin {"str", "dict"} THEN Raise("Exception")
    ELSE IF init.k = "dict"
         THEN IF "type" \notin DOMAIN init.d THEN Raise("Exception")
              ELSE Ok([key \in DOMAIN init.d \cup {"count", "options", "jvm_opts"} |->
                         IF key \in DOMAIN init.d THEN init.d[key]
                         ELSE ComponentDefaults(count)[key]])
    ELSE Ok([type |-> init, count |-> PyInt(count),
             options |-> PyList(<<>>), jvm_opts |-> PyList(<<>>)])

----------------------------------------------------------------------------
(* SpecJBBRun.__init__ *)

ConfigurationError == "InvalidRunConfigurationException"

SetJava(java) ==
    CASE java.k = "str" -> Ok([path |-> java, options |-> PyList(<<>>)])
      [] java.k = "list" ->
            IF Len(java.l) = 0 THEN Raise("IndexError")
            ELSE Ok([path |-> Head(java.l), options |-> PyList(Tail(java.l))])
      [] java.k = "dict" -> Ok(java.d)
      [] OTHER -> Raise(ConfigurationError)

DefaultRole(type, count) ==
    [count |-> PyInt(count), type |-> PyStr(type),
     options |-> PyList(<<>>), jvm_opts |-> PyList(<<>>)]

\* the backends / injectors branches of __set_topology__
SetRole(given, type) ==
    CASE given.k = "int" -> Ok(DefaultRole(type, given.n))
      [] given.k = "dict" -> Ok(given.d)
      [] given.k = "none" -> Ok(DefaultRole(type, 1))
      [] OTHER -> Raise(ConfigurationError)

SetTopology(controller, backends, injectors) ==
    IF controller.k = "none" /\ backends.k = "none" /\ injectors.k = "none"
    THEN Raise(ConfigurationError)
    ELSE IF controller.k # "dict" THEN Raise(ConfigurationError)
    ELSE IF "type" \notin DOMAIN controller.d THEN Raise(ConfigurationError)
    ELSE LET c == IF controller.k = "none"
                  THEN [type |-> PyStr("composite"), options |-> PyList(<<>>),
                        jvm_opts |-> PyList(<<>>)]
                  ELSE controller.d
             b == SetRole(backends, "backend")
             i == SetRole(injectors, "txinjector")
         IN  IF b.exc # "none" THEN b
             ELSE IF i.exc # "none" THEN i
             ELSE Ok([controller |-> c, backends |-> b.val, injectors |-> i.val])

DefaultPropsFile == PyStr("specjbb2015.props")

SpecJBBRunInit(a, id) ==
    IF a.java.k = "none" \/ a.jar.k = "none" \/ a.jar.k # "str"
    THEN Raise(ConfigurationError)
    ELSE LET j == SetJava(a.java)
             t == SetTopology(a.controller, a.backends, a.injectors)
         IN  IF j.exc # "none" THEN j
             ELSE IF t.exc # "none" THEN t
             ELSE Ok([jar |-> a.jar, props_file |-> DefaultPropsFile,
                      run_id |-> Uuid(id), java |-> j.val,
                      controller |-> t.val.controller,
                      backends |-> t.val.backends,
                      injectors |-> t.val.injectors])

----------------------------------------------------------------------------
(* SpecJBBRun._full_options and the three *_run_args *)

\* a slip: the role's options ahead of its "-m" flag, its jvm_opts left out
FullOptionsMisordered(obj, options_dict) ==
    IF "path" \notin DOMAIN obj.java \/ "options" \notin DOMAIN obj.java
    THEN Raise("KeyError")
    ELSE IF "type" \notin DOMAIN options_dict THEN Raise("KeyError")
    ELSE Ok(<<obj.java["path"], PyStr("-jar"), obj.jar>>
            \o obj.java["options"].l
            \o Get(options_dict, "options", PyList(<<>>)).l
            \o <<PyStr("-m"), PyStr(UpperOf(options_dict["type"].s))>>
            \o <<PyStr("-p"), obj.props_file>>)

FullOptions(obj, options_dict) ==
    IF "path" \notin DOMAIN obj.java \/ "options" \notin DOMAIN obj.java
    THEN Raise("KeyError")
    ELSE IF obj.java["options"].k # "list" THEN Raise("TypeError")
    ELSE IF "type" \notin DOMAIN options_dict THEN Raise("KeyError")
    ELSE IF options_dict["type"].k # "str" THEN Raise("AttributeError")
    ELSE LET java == <<obj.java["path"], PyStr("-jar"), obj.jar>>
                     \o obj.java["options"].l
                     \o Get(options_dict, "jvm_opts", PyList(<<>>)).l
             spec == <<PyStr("-m"), PyStr(UpperOf(options_dict["type"].s))>>
                     \o Get(options_dict, "options", PyList(<<>>)).l
                     \o <<PyStr("-p"), obj.props_file>>
         IN  Ok(java \o spec)

controller_run_args(obj) == FullOptions(obj, obj.controller)

backend_run_args(obj) == FullOptions(obj, obj.backends)

injector_run_args(obj) == FullOptions(obj, obj.injectors)

----------------------------------------------------------------------------
(* SpecJBBRun._generate_tasks *)

\* self.controller["type"] is "composite": an identity test.  It is true only
\* when the caller's string is the very object of the module's literal
\* (an interned constant); an equal string built at run time (parsed from a
\* file, say) is another object.
IsComposite(obj, sameObject) ==
    obj.controller["type"] = PyStr("composite") /\ sameObject

\* TaskRunner(*args, '-G=...', '-J=...'); role records which yield made it
TaskRunner(argv, role) == [argv |-> argv, role |-> role]

BackendTask(obj, group_id, jvm_id) ==
    TaskRunner(backend_run_args(obj).val
               \o <<Format("-G=", group_id), Format("-J=", jvm_id)>>, "backend")

InjectorTask(obj, group_id, jvm_id) ==
    TaskRunner(injector_run_args(obj).val
               \o <<Format("-G=", group_id), Format("-J=", jvm_id)>>, "injector")

\* a slip: one JVM id drawn for all the injectors of a group
RECURSIVE GenInjectorsSameJvm(_, _, _, _)
GenInjectorsSameJvm(obj, group_id, left, id) ==
    IF left <= 0 THEN <<>>
    ELSE <<InjectorTask(obj, group_id, Uuid(id))>>
         \o GenInjectorsSameJvm(obj, group_id, left - 1, id)

\* the inner loop: the injectors still to yield for one group
RECURSIVE GenInjectors(_, _, _, _)
GenInjectors(obj, group_id, left, id) ==
    IF left <= 0 THEN <<>>
    ELSE <<InjectorTask(obj, group_id, Uuid(id))>>
         \o GenInjectors(obj, group_id, left - 1, id + 1)

\* the outer loop: the groups still to yield; each takes a group id, a
\* backend JVM id and one JVM id per injector
RECURSIVE GenGroups(_, _, _)
GenGroups(obj, left, id) ==
    IF left <= 0 THEN <<>>
    ELSE LET I == obj.injectors["count"].n
             used == 2 + (IF I > 0 THEN I ELSE 0)
         IN  <<BackendTask(obj, Uuid(id), Uuid(id + 1))>>
             \o GenInjectors(obj, Uuid(id), I, id + 2)
             \o GenGroups(obj, left - 1, id + used)

\* the identifiers a whole expansion draws
IdsUsed(B, I) == IF B > 0 THEN B * (2 + (IF I > 0 THEN I ELSE 0)) ELSE 0

\* list(self._generate_tasks()): val is [tasks, nextId]
GenerateTasks(obj, sameObject, id) ==
    IF IsComposite(obj, sameObject) THEN Ok([tasks |-> <<>>, nextId |-> id])
    ELSE IF "count" \notin DOMAIN obj.backends \/ "count" \notin DOMAIN obj.injectors
    THEN Raise("KeyError")
    ELSE IF obj.backends["count"].k # "int" THEN Raise("TypeError")
    ELSE LET B == obj.backends["count"].n
             I == obj.injectors["count"].n
         IN  IF B <= 0 THEN Ok([tasks |-> <<>>, nextId |-> id])
             ELSE IF backend_run_args(obj).exc # "none" THEN backend_run_args(obj)
             ELSE IF obj.injectors["count"].k # "int" THEN Raise("TypeError")
             ELSE IF I > 0 /\ injector_run_args(obj).exc # "none"
                  THEN injector_run_args(obj)
             ELSE Ok([tasks |-> GenGroups(obj, B, id),
                      nextId |-> id + IdsUsed(B, I)])

----------------------------------------------------------------------------
(* The process runner (src.task_runner.TaskRunner): built from an argv;     *)
(* run() launches and blocks until the process exits, start() launches      *)
(* without blocking, stop() ends a started process.                         *)

NewRunner(argv) == [argv |-> argv, proc |-> "none"]

RunnerRun(r) == [r EXCEPT !.proc = "running"]

RunnerExited(r) == [r EXCEPT !.proc = "exited"]

RunnerStart(r) == [r EXCEPT !.proc = "started"]

RunnerStop(r) == [r EXCEPT !.proc = "stopped"]

\* no TaskRunner has been built yet
NoRunner == [argv |-> <<>>, proc |-> "unbuilt"]

Launched(r) == r.proc \notin {"unbuilt", "none"}

----------------------------------------------------------------------------
(* Bounds and the inputs drawn in Init *)

MaxBackends == 2

MaxInjectors == 2

\* run() is explored for topologies of at most this many tasks
MaxTasks == 6

NoDoc == [k |-> "none"]

JavaInputs ==
    { NoneV, PyStr("java"), PyInt(5),
      PyList(<<PyStr("java"), PyStr("-Xmx1g")>>), PyList(<<>>),
      PyDict([path |-> PyStr("java"), options |-> PyList(<<PyStr("-Xmx1g")>>)]),
      PyDict([options |-> PyList(<<>>)]),
      PyDict([path |-> PyStr("java")]),
      PyDict([path |-> PyInt(5)]),
      PyDict([path |-> PyStr("java"), options |-> PyStr("-Xmx1g")]) }

JarInputs == { NoneV, PyStr("x.jar"), PyInt(7) }

ControllerInputs ==
    { NoneV, PyStr("multi"), PyDict(EmptyDict),
      PyDict([type |-> PyStr("multi")]),
      PyDict([type |-> PyStr("composite")]),
      PyDict([type |-> PyStr("Multi"), options |-> PyList(<<PyStr("-ikv")>>),
              jvm_opts |-> PyList(<<PyStr("-Xms1g")>>)]) }

RoleInputs(type) ==
    { NoneV, PyInt(1), PyStr("x"),
      PyDict([type |-> PyStr(type)]),
      PyDict([count |-> PyInt(1)]),
      PyDict([type |-> PyStr(type), count |-> PyInt(1),
              options |-> PyList(<<PyStr("-Dfoo=bar")>>),
              jvm_opts |-> PyList(<<PyStr("-Xms1g")>>)]) }

\* whether the controller's type string is the object of the literal
\* "composite" can only matter when it equals it
SameObjectChoices(controller) ==
    IF controller.k = "dict" /\ "type" \in DOMAIN controller.d
       /\ controller.d["type"] = PyStr("composite")
    THEN BOOLEAN ELSE {FALSE}

RunArgs(java, jar, controller, backends, injectors, sameObject) ==
    [java |-> java, jar |-> jar, controller |-> controller,
     backends |-> backends, injectors |-> injectors, sameObject |-> sameObject]

\* every shape of every argument, with one process per role
ShapeInputs ==
    { RunArgs(j, r, c, b, i, o) :
        j \in JavaInputs, r \in JarInputs, c \in ControllerInputs,
        b \in RoleInputs("backend"), i \in RoleInputs("txinjector"),
        o \in BOOLEAN } 

\* every topology within the bounds, with well-formed java and jar
TopologyInputs ==
    { RunArgs(PyList(<<PyStr("java"), PyStr("-Xmx1g")>>), PyStr("x.jar"),
              c, PyInt(B), PyInt(I), o) :
        c \in { PyDict([type |-> PyStr("multi")]),
                PyDict([type |-> PyStr("composite")]) },
        B \in 0..MaxBackends, I \in 0..MaxInjectors, o \in BOOLEAN }

SpecJBBRunInputs ==
    { a \in ShapeInputs \cup TopologyInputs :
        /\ a.sameObject \in SameObjectChoices(a.controller)
        /\ (a.backends.k = "int" /\ a.injectors.k = "int"
              => a.backends.n * (1 + a.injectors.n) <= MaxTasks) }

JvmRunOptionsInputs == { [val |-> v] : v \in JavaInputs }

ComponentOptionsInputs ==
    { [init |-> i, count |-> c] :
        i \in { PyStr("backend"), PyStr("bogus"), PyInt(3), PyDict(EmptyDict),
                PyDict([type |-> PyStr("backend")]),
                PyDict([type |-> PyStr("txinjector"), count |-> PyInt(2),
                        options |-> PyList(<<PyStr("-Dfoo=bar")>>)]) },
        c \in 1..MaxInjectors }

InitRun ==
    /\ \/ entry = "SpecJBBRun" /\ args \in SpecJBBRunInputs
       \/ entry = "JvmRunOptions" /\ args \in JvmRunOptionsInputs
       \/ entry = "SpecJBBComponentOptions" /\ args \in ComponentOptionsInputs
    /\ pc = "new"
    /\ exc = "none"
    /\ self = EmptyDict
    /\ nextId = 1
    /\ propsFile = "absent"
    /\ ctrl = NoRunner
    /\ tasks = <<>>
    /\ pool = 0
    /\ tstate = <<>>
    /\ attempts = <<>>

Init == InitRun /\ doc = NoDoc /\ result = NoDoc

----------------------------------------------------------------------------
(* Construction *)

\* SpecJBBRun(...): __init__ runs to its end or raises
NewSpecJBBRun ==
    /\ entry = "SpecJBBRun" /\ pc = "new"
    /\ LET r == SpecJBBRunInit(args, nextId)
           drewRunId == ~(args.java.k = "none" \/ args.jar.k # "str")
       IN  /\ exc' = r.exc
           /\ self' = IF r.exc = "none" THEN r.val ELSE EmptyDict
           /\ pc' = IF r.exc = "none" THEN "constructed" ELSE "ctor_raised"
           /\ nextId' = IF drewRunId THEN nextId + 1 ELSE nextId
    /\ UNCHANGED <<entry, args, propsFile, ctrl, tasks, pool, tstate, attempts>>
    /\ UNCHANGED valVars

\* JvmRunOptions(val)
NewJvmRunOptions ==
    /\ entry = "JvmRunOptions" /\ pc = "new"
    /\ LET r == JvmRunOptions(args.val)
       IN  /\ exc' = r.exc
           /\ self' = IF r.exc = "none" THEN r.val ELSE EmptyDict
           /\ pc' = IF r.exc = "none" THEN "constructed" ELSE "ctor_raised"
    /\ UNCHANGED <<entry, args, nextId, propsFile, ctrl, tasks, pool, tstate,
                   attempts>>
    /\ UNCHANGED valVars

\* SpecJBBComponentOptions(init, count)
NewComponentOptions ==
    /\ entry = "SpecJBBComponentOptions" /\ pc = "new"
    /\ LET r == SpecJBBComponentOptions(args.init, args.count)
       IN  /\ exc' = r.exc
           /\ self' = IF r.exc = "none" THEN r.val ELSE EmptyDict
           /\ pc' = IF r.exc = "none" THEN "constructed" ELSE "ctor_raised"
    /\ UNCHANGED <<entry, args, nextId, propsFile, ctrl, tasks, pool, tstate,
                   attempts>>
    /\ UNCHANGED valVars

----------------------------------------------------------------------------
(* SpecJBBRun.run *)

\* open(self.props_file, 'w+'): the file exists, truncated
RunOpenProps ==
    /\ entry = "SpecJBBRun" /\ pc = "constructed"
    /\ propsFile' = "open"
    /\ pc' = "writing"
    /\ UNCHANGED <<entry, args, exc, self, nextId, ctrl, tasks, pool, tstate,
                   attempts>>
    /\ UNCHANGED valVars

\* c.write(props_file) and the end of the with block, which closes the file
RunWriteProps ==
    /\ pc = "writing"
    /\ propsFile' = "written"
    /\ pc' = "setup"
    /\ UNCHANGED <<entry, args, exc, self, nextId, ctrl, tasks, pool, tstate,
                   attempts>>
    /\ UNCHANGED valVars

\* c = TaskRunner(*self.controller_run_args())
RunSetupController ==
    /\ pc = "setup"
    /\ LET r == controller_run_args(self)
       IN  IF r.exc = "none"
           THEN ctrl' = NewRunner(r.val) /\ pc' = "branch" /\ exc' = exc
           ELSE ctrl' = ctrl /\ pc' = "run_raised" /\ exc' = r.exc
    /\ UNCHANGED <<entry, args, self, nextId, propsFile, tasks, pool, tstate,
                   attempts>>
    /\ UNCHANGED valVars

\* the composite branch: c.run() launches the controller and blocks
RunComposite ==
    /\ pc = "branch" /\ IsComposite(self, args.sameObject)
    /\ ctrl' = RunnerRun(ctrl)
    /\ pc' = "composite_wait"
    /\ UNCHANGED <<entry, args, exc, self, nextId, propsFile, tasks, pool,
                   tstate, attempts>>
    /\ UNCHANGED valVars

\* the controller process exits: c.run() returns and so does run()
ControllerExits ==
    /\ pc = "composite_wait"
    /\ ctrl' = RunnerExited(ctrl)
    /\ pc' = "done"
    /\ UNCHANGED <<entry, args, exc, self, nextId, propsFile, tasks, pool,
                   tstate, attempts>>
    /\ UNCHANGED valVars

\* c.start()
RunStartController ==
    /\ pc = "branch" /\ ~IsComposite(self, args.sameObject)
    /\ ctrl' = RunnerStart(ctrl)
    /\ pc' = "generate"
    /\ UNCHANGED <<entry, args, exc, self, nextId, propsFile, tasks, pool,
                   tstate, attempts>>
    /\ UNCHANGED valVars

\* tasks = [task for task in self._generate_tasks()]
RunGenerateTasks ==
    /\ pc = "generate"
    /\ LET r == GenerateTasks(self, args.sameObject, nextId)
       IN  IF r.exc = "none"
           THEN /\ tasks' = r.val.tasks
                /\ nextId' = r.val.nextId
                /\ tstate' = [t \in 1..Len(r.val.tasks) |-> "new"]
                /\ attempts' = [t \in 1..Len(r.val.tasks) |-> 0]
                /\ pc' = "pool" /\ exc' = exc
           ELSE /\ pc' = "run_raised" /\ exc' = r.exc
                /\ UNCHANGED <<tasks, nextId, tstate, attempts>>
    /\ UNCHANGED <<entry, args, self, propsFile, ctrl, pool>>
    /\ UNCHANGED valVars

\* pool = Pool(processes=len(tasks)): Pool refuses fewer than one process
RunCreatePool ==
    /\ pc = "pool"
    /\ IF Len(tasks) < 1
       THEN pool' = pool /\ pc' = "run_raised" /\ exc' = "ValueError"
       ELSE pool' = Len(tasks) /\ pc' = "map" /\ exc' = exc
    /\ UNCHANGED <<entry, args, self, nextId, propsFile, ctrl, tasks, tstate,
                   attempts>>
    /\ UNCHANGED valVars

\* pool.map(do, tasks) hands every task to the pool and blocks
RunMap ==
    /\ pc = "map"
    /\ tstate' = [t \in 1..Len(tasks) |-> "queued"]
    /\ pc' = "waiting"
    /\ UNCHANGED <<entry, args, exc, self, nextId, propsFile, ctrl, tasks, pool,
                   attempts>>
    /\ UNCHANGED valVars

Busy == Cardinality({t \in 1..Len(tasks) : tstate[t] = "running"})

\* do(task) in a worker: task.run() launches the subprocess.  Workers take
\* the tasks off the pool's queue in order.
DoStart(t) ==
    /\ tstate[t] = "queued"
    /\ \A u \in 1..(t - 1) : tstate[u] # "queued"
    /\ Busy < pool
    /\ tstate' = [tstate EXCEPT ![t] = "running"]
    /\ attempts' = [attempts EXCEPT ![t] = @ + 1]
    /\ UNCHANGED <<entry, args, pc, exc, self, nextId, propsFile, ctrl, tasks,
                   pool>>
    /\ UNCHANGED valVars

\* the subprocess exits and task.run() returns: do(task) finishes
DoFinish(t) ==
    /\ tstate[t] = "running"
    /\ tstate' = [tstate EXCEPT ![t] = "done"]
    /\ UNCHANGED <<entry, args, pc, exc, self, nextId, propsFile, ctrl, tasks,
                   pool, attempts>>
    /\ UNCHANGED valVars

\* task.run() raises: do(task) lets it through and the worker reports it
DoFail(t) ==
    /\ tstate[t] = "running"
    /\ tstate' = [tstate EXCEPT ![t] = "failed"]
    /\ UNCHANGED <<entry, args, pc, exc, self, nextId, propsFile, ctrl, tasks,
                   pool, attempts>>
    /\ UNCHANGED valVars

\* a slip: map returning as soon as one task's do() returned
MapReturnsEarly ==
    /\ pc = "waiting"
    /\ \E t \in 1..Len(tasks) : tstate[t] = "done"
    /\ pc' = "stop"
    /\ UNCHANGED <<entry, args, exc, self, nextId, propsFile, ctrl, tasks, pool,
                   tstate, attempts>>
    /\ UNCHANGED valVars

\* pool.map returns: every task's do() returned
MapReturns ==
    /\ pc = "waiting"
    /\ \A t \in 1..Len(tasks) : tstate[t] = "done"
    /\ pc' = "stop"
    /\ UNCHANGED <<entry, args, exc, self, nextId, propsFile, ctrl, tasks, pool,
                   tstate, attempts>>
    /\ UNCHANGED valVars

\* a slip: the pool terminated when a task's failure reaches run()
MapRaisesTerminatingPool ==
    /\ pc = "waiting"
    /\ \E t \in 1..Len(tasks) : tstate[t] = "failed"
    /\ pc' = "run_raised"
    /\ exc' = "TaskError"
    /\ tstate' = [t \in 1..Len(tasks) |->
                    IF tstate[t] \in {"queued", "running"} THEN "cancelled"
                    ELSE tstate[t]]
    /\ UNCHANGED <<entry, args, self, nextId, propsFile, ctrl, tasks, pool,
                   attempts>>
    /\ UNCHANGED valVars

\* pool.map re-raises a task's exception in run(), which has no handler.
\* Runtimes differ in whether map waits for the other tasks first; both are
\* allowed here.
MapRaises ==
    /\ pc = "waiting"
    /\ \E t \in 1..Len(tasks) : tstate[t] = "failed"
    /\ pc' = "run_raised"
    /\ exc' = "TaskError"
    /\ UNCHANGED <<entry, args, self, nextId, propsFile, ctrl, tasks, pool,
                   tstate, attempts>>
    /\ UNCHANGED valVars

\* c.stop(), then run() returns
RunStopController ==
    /\ pc = "stop"
    /\ ctrl' = RunnerStop(ctrl)
    /\ pc' = "done"
    /\ UNCHANGED <<entry, args, exc, self, nextId, propsFile, tasks, pool,
                   tstate, attempts>>
    /\ UNCHANGED valVars

Next ==
    \/ NewSpecJBBRun
    \/ NewJvmRunOptions
    \/ NewComponentOptions
    \/ RunOpenProps
    \/ RunWriteProps
    \/ RunSetupController
    \/ RunComposite
    \/ ControllerExits
    \/ RunStartController
    \/ RunGenerateTasks
    \/ RunCreatePool
    \/ RunMap
    \/ \E t \in DOMAIN tstate : DoStart(t)
    \/ \E t \in DOMAIN tstate : DoFinish(t)
    \/ \E t \in DOMAIN tstate : DoFail(t)
    \/ MapReturns
    \/ MapRaises
    \/ RunStopController

Spec == Init /\ [][Next]_vars

----------------------------------------------------------------------------
(* What the claims speak of *)

TaskIds == DOMAIN tasks

\* a SpecJBBRun was constructed (and run() may be under way or over)
Constructed == entry = "SpecJBBRun" /\ pc \notin {"new", "ctor_raised"}

\* the controller's type, compared by value
CompositeType == self.controller["type"] = PyStr("composite")

\* a task's subprocess was launched
TaskLaunched(t) == tstate[t] \in {"running", "done", "failed"}

\* a task was handed to the pool
TaskSubmitted(t) == tstate[t] # "new"

\* run() is over, by returning or by an exception
RunEnded == entry = "SpecJBBRun" /\ pc \in {"done", "run_raised"}

\* list(self._generate_tasks()) has produced run()'s task list
Generated ==
    /\ entry = "SpecJBBRun"
    /\ \/ pc \in {"pool", "map", "waiting", "stop"}
       \/ pc = "done" /\ ctrl.proc = "stopped"
       \/ pc = "run_raised" /\ exc \in {"ValueError", "TaskError"}

IsFlag(token, flag) == "id" \in DOMAIN token /\ token.s = flag

GroupOf(t) == tasks[t].argv[Len(tasks[t].argv) - 1].id

JvmOf(t) == tasks[t].argv[Len(tasks[t].argv)].id

----------------------------------------------------------------------------
\* C1: in every execution of run(), the properties file is completely
\* written before any process (controller or task) is launched; and when the
\* controller type is not composite, the controller is started before any
\* task is submitted to the pool and is stopped only after every generated
\* task has completed.
C1_RunOrdering ==
    Constructed =>
        /\ (Launched(ctrl) \/ \E t \in TaskIds : TaskLaunched(t))
              => propsFile = "written"
        /\ ~CompositeType =>
              /\ (\E t \in TaskIds : TaskSubmitted(t))
                    => ctrl.proc \in {"started", "stopped"}
              /\ ctrl.proc = "stopped"
                    => \A t \in TaskIds : tstate[t] = "done"

\* a non-composite run that stopped its controller after several tasks
C1_Witness ==
    /\ Constructed /\ ~CompositeType
    /\ ctrl.proc = "stopped" /\ Len(tasks) >= 2
    /\ propsFile = "written"

\* C2: for every run whose controller type is "composite", run() launches
\* exactly one process, the controller, runs it synchronously, generates no
\* task, creates no pool and never calls start() or stop() on the controller.
C2_CompositeSingleProcess ==
    (Constructed /\ CompositeType) =>
        /\ ctrl.proc \notin {"started", "stopped"}
        /\ tasks = <<>>
        /\ pool = 0
        /\ pc = "done" => ctrl.proc = "exited"

\* C3: for a non-composite controller and counts B and I, the expansion
\* yields exactly B + B*I tasks: a backend followed by its I injectors,
\* B times; a backend and its injectors carry the same -G identifier,
\* different groups carry different ones, and all -J identifiers differ.
C3_TaskExpansion ==
    (Generated /\ ~CompositeType) =>
        LET B == self.backends["count"].n
            I == self.injectors["count"].n
            First(g) == g * (1 + I) + 1
        IN  /\ Len(tasks) = B + B * I
            /\ \A g \in 0..(B - 1) :
                  /\ tasks[First(g)].role = "backend"
                  /\ \A j \in 1..I :
                        /\ tasks[First(g) + j].role = "injector"
                        /\ GroupOf(First(g) + j) = GroupOf(First(g))
            /\ \A g, h \in 0..(B - 1) :
                  g # h => GroupOf(First(g)) # GroupOf(First(h))
            /\ \A t, u \in TaskIds : t # u => JvmOf(t) # JvmOf(u)

\* two groups of two injectors each were generated
C3_Witness ==
    /\ Generated /\ ~CompositeType
    /\ self.backends["count"].n = 2 /\ self.injectors["count"].n = 2
    /\ Len(tasks) = 6

\* upper-casing, as the process invocation format states it
UppercaseOf ==
    [backend |-> "BACKEND", txinjector |-> "TXINJECTOR", composite |-> "COMPOSITE",
     multi |-> "MULTI", Multi |-> "MULTI", distributed |-> "DISTRIBUTED"]

\* [java.path, "-jar", jar] ++ java.options ++ role.jvm_opts
\*   ++ ["-m", uppercase(role.type)] ++ role.options ++ ["-p", props_file],
\* a role that has no jvm_opts or options contributing none
ArgvFormula(role) ==
    LET opt(key) == IF key \in DOMAIN role THEN role[key].l ELSE <<>>
    IN  <<self.java["path"], PyStr("-jar"), self.jar>>
        \o self.java["options"].l \o opt("jvm_opts")
        \o <<PyStr("-m"), PyStr(UppercaseOf[role["type"].s])>>
        \o opt("options") \o <<PyStr("-p"), self.props_file>>

\* C4: the argv of every process the orchestrator constructs is the formula
\* above, the same for controller, backend and injector; a task has exactly
\* the two tokens -G=<group-id> and -J=<jvm-id> appended after it, and the
\* controller's argv has no such token.
C4_ArgvFormula ==
    Constructed =>
        /\ ctrl.proc # "unbuilt" =>
              /\ ctrl.argv = ArgvFormula(self.controller)
              /\ \A i \in DOMAIN ctrl.argv : "id" \notin DOMAIN ctrl.argv[i]
        /\ \A t \in TaskIds :
              LET a == tasks[t].argv
                  n == Len(a)
                  role == IF tasks[t].role = "backend"
                          THEN self.backends ELSE self.injectors
              IN  /\ n >= 2
                  /\ SubSeq(a, 1, n - 2) = ArgvFormula(role)
                  /\ IsFlag(a[n - 1], "-G=")
                  /\ IsFlag(a[n], "-J=")

\* a run whose java, controller and backends all carry options, with a
\* mixed-case controller type
C4_Witness ==
    /\ Constructed /\ ctrl.proc # "unbuilt"
    /\ self.controller["type"] = PyStr("Multi")
    /\ \E i \in DOMAIN ctrl.argv : ctrl.argv[i] = PyStr("MULTI")
    /\ Len(self.java["options"].l) > 0
    /\ \E t \in TaskIds :
          /\ tasks[t].role = "backend"
          /\ "jvm_opts" \in DOMAIN self.backends
          /\ Len(self.backends["jvm_opts"].l) > 0

----------------------------------------------------------------------------
\* the construction inputs C6 lists
RejectedInputs(a) ==
    \/ a.java.k = "none"
    \/ a.jar.k # "str"
    \/ a.controller.k # "dict"
    \/ a.controller.k = "dict" /\ "type" \notin DOMAIN a.controller.d
    \/ a.backends.k \notin {"none", "int", "dict"}
    \/ a.injectors.k \notin {"none", "int", "dict"}

\* C6: constructing a Benchmark Run fails with ConfigurationError whenever
\* java is absent, jar is absent or not a string, the topology is absent,
\* controller is absent, not a mapping or lacks a type, or backends/injectors
\* is neither an integer nor a mapping; and then no properties file has been
\* written and no process launched.
C6_ConstructionRejects ==
    (entry = "SpecJBBRun" /\ pc # "new" /\ RejectedInputs(args)) =>
        /\ pc = "ctor_raised"
        /\ exc = ConfigurationError
        /\ propsFile = "absent"
        /\ ~Launched(ctrl)
        /\ \A t \in TaskIds : ~TaskLaunched(t)

\* the Java Invocation Options record a construction left behind
JavaRecord == IF entry = "SpecJBBRun" THEN self.java ELSE self

LacksPath(v) == v.k = "dict" /\ "path" \notin DOMAIN v.d

JavaInput == IF entry = "SpecJBBRun" THEN args.java ELSE args.val

\* C7: after any successful normalization of Java Invocation Options, by
\* JvmRunOptions or by SpecJBBRun construction, the record has a path that
\* is a non-empty string and an options sequence; a mapping lacking a path
\* key never yields a constructed record: construction fails with an error.
C7_JavaNormalized ==
    (entry \in {"SpecJBBRun", "JvmRunOptions"} /\ pc # "new") =>
        /\ pc # "ctor_raised" =>
              /\ "path" \in DOMAIN JavaRecord
              /\ JavaRecord["path"].k = "str"
              /\ JavaRecord["path"].s # ""
              /\ "options" \in DOMAIN JavaRecord
              /\ JavaRecord["options"].k = "list"
        /\ LacksPath(JavaInput) =>
              pc = "ctor_raised" /\ exc \in {ConfigurationError, "Exception"}

\* a canonical Component Role Options record
Canonical(role) ==
    /\ {"type", "count", "options", "jvm_opts"} \subseteq DOMAIN role
    /\ role["count"].k = "int" /\ role["count"].n >= 1
    /\ role["options"].k = "list"
    /\ role["jvm_opts"].k = "list"

\* C8: after any successful Benchmark Run construction, backends and
\* injectors are canonical Component Role Options records: a type, a
\* positive integer count, an options sequence and a jvm_opts sequence,
\* with the defaults filled in for what a mapping omitted.
C8_RolesCanonical ==
    Constructed => Canonical(self.backends) /\ Canonical(self.injectors)

\* C9: in a non-composite run, when a task handed to the pool fails, no
\* sibling task is cancelled or halted (a dispatched sibling can still go on
\* and its subprocess can still run to its end), and no task is retried.
C9_SiblingsRunOn ==
    (Constructed /\ \E t \in TaskIds : tstate[t] = "failed") =>
        \A u \in TaskIds :
            /\ tstate[u] \in {"queued", "running", "done", "failed"}
            /\ attempts[u] <= 1
            /\ tstate[u] = "running" => ENABLED DoFinish(u)
            /\ tstate[u] = "queued" => ENABLED (\E v \in TaskIds : DoStart(v))
            /\ tstate[u] \in {"done", "failed"} => ~ENABLED DoStart(u)

\* run() has propagated one task's failure while a sibling is still running
\* and another has run to its end
C9_Witness ==
    /\ Constructed /\ pc = "run_raised" /\ exc = "TaskError"
    /\ \E t, u, v \in TaskIds :
          tstate[t] = "failed" /\ tstate[u] = "running" /\ tstate[v] = "done"

\* C10: run() never ends, by returning or by propagating a failure from the
\* pool's creation or from a task, with the controller started and not
\* stopped.
C10_ControllerStopped ==
    (RunEnded /\ exc \in {"none", "ValueError", "TaskError"}) =>
        ctrl.proc # "started"

----------------------------------------------------------------------------
(* validate.py: documents are the structurally valid ones, which            *)
(* SpectateConfig.validate accepts.  A template and a run are functions     *)
(* from their keys; args of a template is a list of names, args of a run    *)
(* and the default_props, translations and annotations of a template are    *)
(* mappings, of which only the keys matter to validate().                   *)

MaxRuns == 2

ArgNames == {"a", "b"}

Range(seq) == {seq[i] : i \in DOMAIN seq}

\* a mapping with the given keys
Mapping(keys) == [key \in keys |-> "v"]

\* an optional key: left out, or given with a value
Absent == [k |-> "absent"]

Given(v) == [k |-> "given", v |-> v]

Field(key, opt) == IF opt.k = "absent" THEN EmptyDict ELSE (key :> opt.v)

OptionalMappings(keySets) == {Absent} \cup {Given(Mapping(keys)) : keys \in keySets}

Templates ==
    { [args |-> a] @@ Field("run_type", rt) @@ Field("default_props", dp)
        @@ Field("translations", tr) @@ Field("annotations", an) :
        a \in {<<>>, <<"a">>, <<"b">>, <<"a", "b">>},
        rt \in {Absent, Given("multi")},
        dp \in OptionalMappings(SUBSET ArgNames),
        tr \in OptionalMappings({{"a"}, {"b"}}),
        an \in OptionalMappings({{"a"}, {"b"}}) }

RunConfigs ==
    { [template_type |-> tt, args |-> Mapping(keys)] :
        tt \in {"t", "u"}, keys \in SUBSET ArgNames }

RunLists == UNION { [1..n -> RunConfigs] : n \in 0..MaxRuns }

\* one template, named "t"; a run may name a template that is not there
Documents ==
    { [TemplateData |-> [name \in {"t"} |-> t], RunList |-> rl] :
        t \in Templates, rl \in RunLists }

\* TemplateSchema's Optional(..., default=...) keys
TemplateDefaults ==
    [run_type |-> "composite", java |-> "java", jar |-> "specjbb2015.jar"]

\* d = SpectateConfig.validate(unvalidated): the document with the defaults
\* of the keys a template left out
Defaulted(d) ==
    [d EXCEPT !.TemplateData =
        [name \in DOMAIN d.TemplateData |->
            LET t == d.TemplateData[name]
            IN  [key \in DOMAIN t \cup DOMAIN TemplateDefaults |->
                    IF key \in DOMAIN t THEN t[key] ELSE TemplateDefaults[key]]]]

ReturnsNone == [kind |-> "None"]

Returns(d) == [kind |-> "document", doc |-> d]

Raises(e) == [kind |-> "raised", exc |-> e]

\* the first loop of validate, from run i on: "pass" when no run stops it
RECURSIVE CheckRuns(_, _)
CheckRuns(d, i) ==
    IF i > Len(d.RunList) THEN [kind |-> "pass"]
    ELSE LET run == d.RunList[i]
         IN  IF run.template_type \notin DOMAIN d.TemplateData
             THEN Raises("KeyError")
             ELSE LET t == d.TemplateData[run.template_type]
                      needDefault == {arg \in Range(t.args) :
                                        arg \notin DOMAIN run.args}
                  IN  IF \E arg \in DOMAIN run.args : arg \notin Range(t.args)
                      THEN ReturnsNone
                      ELSE IF needDefault # {} /\ "default_props" \notin DOMAIN t
                      THEN Raises("KeyError")
                      ELSE IF \E arg \in needDefault :
                                 arg \notin DOMAIN t.default_props
                      THEN ReturnsNone
                      ELSE CheckRuns(d, i + 1)

\* the second loop of validate: a template stops it, or none does
CheckTemplates(d) ==
    IF \E name \in DOMAIN d.TemplateData :
          LET t == d.TemplateData[name]
          IN  \/ /\ "translations" \in DOMAIN t
                 /\ \E key \in DOMAIN t.translations : key \notin Range(t.args)
              \/ /\ "annotations" \in DOMAIN t
                 /\ \E key \in DOMAIN t.annotations : key \notin Range(t.args)
    THEN ReturnsNone
    ELSE Returns(d)

validate(unvalidated) ==
    LET d == Defaulted(unvalidated)
        runs == CheckRuns(d, 1)
    IN  IF runs.kind # "pass" THEN runs ELSE CheckTemplates(d)

InitValidate ==
    /\ entry = "validate"
    /\ args = EmptyDict
    /\ pc = "new"
    /\ exc = "none"
    /\ self = EmptyDict
    /\ nextId = 1
    /\ propsFile = "absent"
    /\ ctrl = NoRunner
    /\ tasks = <<>>
    /\ pool = 0
    /\ tstate = <<>>
    /\ attempts = <<>>
    /\ doc \in Documents
    /\ result = NoDoc

\* validate(document) returns or raises
CallValidate ==
    /\ entry = "validate" /\ pc = "new"
    /\ result' = validate(doc)
    /\ pc' = IF validate(doc).kind = "raised" THEN "raised" ELSE "returned"
    /\ exc' = IF validate(doc).kind = "raised" THEN validate(doc).exc ELSE exc
    /\ UNCHANGED <<entry, args, self, nextId, propsFile, ctrl, tasks, pool,
                   tstate, attempts, doc>>

NextValidate == CallValidate

SpecValidate == InitValidate /\ [][NextValidate]_vars

\* the keys a template gives defaults for: none when it has no default_props
DefaultKeys(t) ==
    IF "default_props" \in DOMAIN t THEN DOMAIN t.default_props ELSE {}

KeysOf(t, field) == IF field \in DOMAIN t THEN DOMAIN t[field] ELSE {}

\* every run names a template of the document
RunsResolve(d) ==
    \A i \in DOMAIN d.RunList : d.RunList[i].template_type \in DOMAIN d.TemplateData

\* the four cross-referential rules
RulesHold(d) ==
    /\ \A i \in DOMAIN d.RunList :
          LET run == d.RunList[i]
              t == d.TemplateData[run.template_type]
          IN  /\ DOMAIN run.args \subseteq Range(t.args)
              /\ Range(t.args) \ DOMAIN run.args \subseteq DefaultKeys(t)
    /\ \A name \in DOMAIN d.TemplateData :
          LET t == d.TemplateData[name]
          IN  /\ KeysOf(t, "translations") \subseteq Range(t.args)
              /\ KeysOf(t, "annotations") \subseteq Range(t.args)

\* C5: for every structurally valid document, validate returns the
\* defaulted document when the four cross-referential rules hold, and
\* returns no value (it does not raise) when any of them fails, also when a
\* run omits a template arg and the template has no default_props at all.
C5_ValidateResult ==
    (entry = "validate" /\ pc # "new" /\ RunsResolve(doc)) =>
        IF RulesHold(doc)
        THEN result = Returns(Defaulted(doc))
        ELSE result = ReturnsNone

====
